---- MODULE Spec2Model ----
(***************************************************************************)
(* A model of convert_secrets.py: the scan-report parser, the              *)
(* deduplicator/classifier, the extension-id resolver and the three        *)
(* artifact generators (converted.http, http-client.env.json, unknown.txt).*)
(* Text is modelled as strings, handled character by character with Len,   *)
(* SubSeq and \o, so that substring tests, prefixes, stripping, splitting  *)
(* and replacement are computed the way the Python string methods compute  *)
(* them.                                                                   *)
(***************************************************************************)
EXTENDS Integers, Sequences, FiniteSets, TLC

VARIABLES
    input,          \* the lines of scan.txt, in file order (without the newline)
    pos,            \* number of lines parse_scan_file has consumed
    current_entry,  \* the parser's record under construction, or None
    secrets,        \* the list parse_scan_file returns
    known,          \* first list returned by deduplicate_secrets
    unknown,        \* second list returned by deduplicate_secrets
    base_dir,       \* what responses/ is: "absent", "dir" or "file"
    response_dirs,  \* the subdirectories of responses/ that exist
    response_files, \* the regular files of responses/
    http_file,      \* the bytes of converted.http, each as the character of its value
    env_file,       \* the bytes of http-client.env.json on disk, likewise
    unknown_file,   \* the bytes of unknown.txt, likewise
    file_path,      \* argument of a stand-alone extract_extension_id call
    group_id,       \* its result
    pc,             \* position of the program
    raised          \* main has ended by an exception, at the position pc

vars == <<input, pos, current_entry, secrets, known, unknown, base_dir, response_dirs,
          response_files, http_file, env_file, unknown_file, file_path, group_id, pc,
          raised>>

(***************************************************************************)
(* Bounds of the model.                                                    *)
(***************************************************************************)
\* number of occurrence blocks in a report fed to the whole pipeline
MaxBlocks == 2

\* number of lines in a report fed to the parser alone
MaxLines == 4

\* number of '/'-separated segments in a path fed to extract_extension_id
MaxSegs == 4

(***************************************************************************)
(* Text.  A character is a string of length one.  The characters of the   *)
(* model are the code points U+0001 to U+00FF, the ones a string of the   *)
(* model can hold; the characters of Python text above U+00FF are outside *)
(* the model.  Latin1 lists them in code-point order, so that ord and chr  *)
(* are a search in it and an index into it.                               *)
(***************************************************************************)
\* s[i], 1-based
Char(s, i) == SubSeq(s, i, i)

\* the characters U+0001 to U+00FF: the n-th one is chr(n)
Latin1 ==
    "\t\n\f\r" \o
    " !\"#$%&'()*+,-./0123456789:;<=>?" \o
    "@ABCDEFGHIJKLMNOPQRSTUVWXYZ[\\]^_" \o
    SubSeq("`'", 1, 1) \o
    "abcdefghijklmnopqrstuvwxyz{|}~" \o
    "" \o
    " ¡¢£¤¥¦§¨©ª«¬­®¯°±²³´µ¶·¸¹º»¼½¾¿" \o
    "ÀÁÂÃÄÅÆÇÈÉÊËÌÍÎÏÐÑÒÓÔÕÖ×ØÙÚÛÜÝÞß" \o
    "àáâãäåæçèéêëìíîïðñòóôõö÷øùúûüýþÿ"

\* chr(n)
Chr(n) == Char(Latin1, n)

\* ord(c)
Ord(c) == CHOOSE n \in 1..255 : Chr(n) = c

\* the characters UTF-8 encodes in two bytes
TwoByteChars == {Chr(n) : n \in 128..255}

\* c.encode('utf-8'), each byte as the character of its value
Utf8Char(c) ==
    IF c \in TwoByteChars
    THEN Chr(192 + (Ord(c) \div 64)) \o Chr(128 + (Ord(c) % 64))
    ELSE c

RECURSIVE Utf8(_)
\* text.encode('utf-8'): what a file opened with encoding='utf-8' holds for the
\* text written to it, each byte as the character of its value (the string is
\* halved to keep the nesting low)
Utf8(text) ==
    IF \A i \in 1..Len(text) : Char(text, i) \notin TwoByteChars THEN text
    ELSE IF Len(text) = 1 THEN Utf8Char(text)
    ELSE Utf8(SubSeq(text, 1, Len(text) \div 2))
         \o Utf8(SubSeq(text, Len(text) \div 2 + 1, Len(text)))

(***************************************************************************)
(* Python string methods.                                                  *)
(***************************************************************************)
\* s[i-1:] in Python terms: the suffix that starts at the 1-based index i
From(s, i) == SubSeq(s, i, Len(s))

\* str.startswith
StartsWith(s, p) == Len(s) >= Len(p) /\ SubSeq(s, 1, Len(p)) = p

\* the test "sub in s"
Contains(s, sub) ==
    \E i \in 1..(Len(s) - Len(sub) + 1) : SubSeq(s, i, i + Len(sub) - 1) = sub

\* str.find, 1-based; 0 when sub does not occur
Find(s, sub) ==
    IF Contains(s, sub)
    THEN CHOOSE i \in 1..(Len(s) - Len(sub) + 1) :
            /\ SubSeq(s, i, i + Len(sub) - 1) = sub
            /\ \A j \in 1..(i - 1) : SubSeq(s, j, j + Len(sub) - 1) # sub
    ELSE 0

\* the code points of the characters str.strip and str.rstrip remove (the ones
\* str.isspace holds of): U+0009..U+000D, U+001C..U+0020, U+0085, U+00A0
WhitespaceCodes == (9..13) \cup (28..32) \cup {133, 160}

\* the characters str.strip and str.rstrip remove
Whitespace == {Chr(n) : n \in WhitespaceCodes}

\* the indices of the characters of s that are not whitespace
Inked(s) == {i \in 1..Len(s) : Char(s, i) \notin Whitespace}

\* the largest element of a non-empty set of numbers
Max(S) == CHOOSE i \in S : \A j \in S : j <= i

\* the smallest element of a non-empty set of numbers
Min(S) == CHOOSE i \in S : \A j \in S : i <= j

\* str.rstrip()
Rstrip(s) == IF Inked(s) = {} THEN "" ELSE SubSeq(s, 1, Max(Inked(s)))

\* str.lstrip()
Lstrip(s) == IF Inked(s) = {} THEN "" ELSE From(s, Min(Inked(s)))

\* str.strip()
Strip(s) == Lstrip(Rstrip(s))

\* line.split(':', 1)[0], for a line that contains a colon
BeforeColon(s) == SubSeq(s, 1, Find(s, ":") - 1)

\* line.split(':', 1)[1], for a line that contains a colon
AfterColon(s) == From(s, Find(s, ":") + 1)

\* the code points of the characters str.lower changes: A..Z, and the capital
\* letters U+00C0..U+00DE of Latin-1 but for the multiplication sign U+00D7
UpperCodes == (65..90) \cup (192..214) \cup (216..222)

\* the characters str.lower changes
UpperCase == {Chr(n) : n \in UpperCodes}

\* the lowercase letter of each of them, 32 code points further
LowerCase == [c \in UpperCase |-> Chr(Ord(c) + 32)]

\* str.lower on one character
LowerChar(c) == IF c \in UpperCase THEN LowerCase[c] ELSE c

RECURSIVE Lower(_)
\* str.lower(): character by character (the string is halved to keep the nesting low)
Lower(s) ==
    IF Len(s) = 0 THEN ""
    ELSE IF Len(s) = 1 THEN LowerChar(s)
    ELSE Lower(SubSeq(s, 1, Len(s) \div 2)) \o Lower(From(s, Len(s) \div 2 + 1))

RECURSIVE Replace(_, _, _)
\* str.replace(old, new) for a non-empty old: leftmost, non-overlapping
Replace(s, old, new) ==
    LET i == Find(s, old) IN
    IF i = 0 THEN s
    ELSE SubSeq(s, 1, i - 1) \o new \o Replace(From(s, i + Len(old)), old, new)

RECURSIVE Join(_, _)
\* sep.join(parts)
Join(parts, sep) ==
    IF parts = <<>> THEN ""
    ELSE IF Len(parts) = 1 THEN parts[1]
    ELSE parts[1] \o sep \o Join(Tail(parts), sep)

(***************************************************************************)
(* The endpoint table.  headers and body are Python dicts: a dict is a     *)
(* sequence of <<key, value>> pairs in insertion order.  A body of None is *)
(* the empty sequence: the only use of body outside json.dumps is its      *)
(* truth value, and None and {} are both false.  The values of a body are *)
(* kept as the JSON text json.dumps gives them.                            *)
(***************************************************************************)
API_ENDPOINTS ==
    ("openai" :>
        [method |-> "GET",
         url |-> "https://api.openai.com/v1/models",
         headers |-> <<<<"Authorization", "Bearer {{var}}">>>>,
         body |-> <<>>]) @@
    ("telegrambottoken" :>
        [method |-> "GET",
         url |-> "https://api.telegram.org/bot{{var}}/getMe",
         headers |-> <<>>,
         body |-> <<>>]) @@
    ("alchemy" :>
        [method |-> "POST",
         url |-> "https://eth-mainnet.g.alchemy.com/v2/{{var}}",
         headers |-> <<<<"Content-Type", "application/json">>>>,
         body |-> <<<<"jsonrpc", "\"2.0\"">>,
                     <<"method", "\"eth_blockNumber\"">>,
                     <<"params", "[]">>,
                     <<"id", "1">>>>]) @@
    ("infura" :>
        [method |-> "POST",
         url |-> "https://mainnet.infura.io/v3/{{var}}",
         headers |-> <<<<"Content-Type", "application/json">>>>,
         body |-> <<<<"jsonrpc", "\"2.0\"">>,
                     <<"method", "\"eth_blockNumber\"">>,
                     <<"params", "[]">>,
                     <<"id", "1">>>>]) @@
    ("openweather" :>
        [method |-> "GET",
         url |-> "https://api.openweathermap.org/data/2.5/weather?q=London&appid={{var}}",
         headers |-> <<>>,
         body |-> <<>>]) @@
    ("cryptocompare" :>
        [method |-> "GET",
         url |-> "https://min-api.cryptocompare.com/data/price?fsym=BTC&tsyms=USD&api_key={{var}}",
         headers |-> <<>>,
         body |-> <<>>]) @@
    ("weatherstack" :>
        [method |-> "GET",
         url |-> "http://api.weatherstack.com/current?access_key={{var}}&query=London",
         headers |-> <<>>,
         body |-> <<>>]) @@
    ("flickr" :>
        [method |-> "GET",
         url |-> "https://api.flickr.com/services/rest/?method=flickr.test.echo&api_key={{var}}&format=json&nojsoncallback=1",
         headers |-> <<>>,
         body |-> <<>>]) @@
    ("newsapi" :>
        [method |-> "GET",
         url |-> "https://newsapi.org/v2/top-headlines?country=us&apiKey={{var}}",
         headers |-> <<>>,
         body |-> <<>>]) @@
    ("miro" :>
        [method |-> "GET",
         url |-> "https://api.miro.com/v1/boards",
         headers |-> <<<<"Authorization", "Bearer {{var}}">>>>,
         body |-> <<>>]) @@
    ("twitchaccesstoken" :>
        [method |-> "GET",
         url |-> "https://id.twitch.tv/oauth2/validate",
         headers |-> <<<<"Authorization", "OAuth {{var}}">>>>,
         body |-> <<>>]) @@
    ("onesignal" :>
        [method |-> "GET",
         url |-> "https://onesignal.com/api/v1/apps",
         headers |-> <<<<"Authorization", "Basic {{var}}">>>>,
         body |-> <<>>]) @@
    ("rapidapi" :>
        [method |-> "GET",
         url |-> "https://rapidapi.com/api/health",
         headers |-> <<<<"X-RapidAPI-Key", "{{var}}">>>>,
         body |-> <<>>]) @@
    ("snykkey" :>
        [method |-> "GET",
         url |-> "https://api.snyk.io/v1/user/me",
         headers |-> <<<<"Authorization", "token {{var}}">>>>,
         body |-> <<>>]) @@
    ("ipstack" :>
        [method |-> "GET",
         url |-> "http://api.ipstack.com/check?access_key={{var}}",
         headers |-> <<>>,
         body |-> <<>>]) @@
    ("fixerio" :>
        [method |-> "GET",
         url |-> "http://data.fixer.io/api/latest?access_key={{var}}",
         headers |-> <<>>,
         body |-> <<>>]) @@
    ("sumologickey" :>
        [method |-> "GET",
         url |-> "https://api.sumologic.com/api/v1/users",
         headers |-> <<<<"Authorization", "Basic {{var}}">>>>,
         body |-> <<>>]) @@
    ("atlassian" :>
        [method |-> "GET",
         url |-> "https://api.atlassian.com/me",
         headers |-> <<<<"Authorization", "Bearer {{var}}">>>>,
         body |-> <<>>])

(***************************************************************************)
(* SecretEntry.                                                            *)
(***************************************************************************)
\* the value of current_entry before the first marker
None == [none |-> TRUE]

\* SecretEntry.__init__
SecretEntry ==
    [detector_type |-> "", decoder_type |-> "", raw_result |-> "",
     file_path |-> "", line_number |-> "", verified |-> FALSE,
     extension_id |-> "", extra_info |-> <<>>]

\* the length of the text [^/]+ matches from index j on (greedy; 0 when it cannot match)
SegmentRun(p, j) ==
    LET slashes == {k \in j..Len(p) : Char(p, k) = "/"} IN
    IF slashes = {} THEN Len(p) - j + 1 ELSE Min(slashes) - j

\* whether extensions/([^/]+)/ matches with its first character at index i
MatchAt(p, i) ==
    /\ i + 10 <= Len(p)
    /\ SubSeq(p, i, i + 10) = "extensions/"
    /\ SegmentRun(p, i + 11) >= 1
    /\ i + 11 + SegmentRun(p, i + 11) <= Len(p)

\* re.search(r'extensions/([^/]+)/', p): the start of the leftmost match, 0 for no match
Search(p) ==
    LET starts == {i \in 1..Len(p) : MatchAt(p, i)} IN
    IF starts = {} THEN 0 ELSE Min(starts)

\* SecretEntry.extract_extension_id, as a function of self.file_path
extract_extension_id(path) ==
    IF path = "" THEN "unknown"
    ELSE LET i == Search(path) IN
         IF i # 0
         THEN SubSeq(path, i + 11, i + 10 + SegmentRun(path, i + 11))
         ELSE "unknown"

\* self.detector_type.lower().replace(' ', '').replace('-', '')
Normalize(detector_type) ==
    Replace(Replace(Lower(detector_type), " ", ""), "-", "")

\* self.extension_id or self.extract_extension_id()
ExtId(secret) ==
    IF secret.extension_id # "" THEN secret.extension_id
    ELSE extract_extension_id(secret.file_path)

\* SecretEntry.get_variable_name
get_variable_name(secret) ==
    ExtId(secret) \o "_" \o Normalize(secret.detector_type)

\* is_known_type with the hyphens left in the detector type
is_known_type_hyphenated(secret) ==
    Replace(Lower(secret.detector_type), " ", "") \in DOMAIN API_ENDPOINTS

\* SecretEntry.is_known_type
is_known_type(secret) ==
    Normalize(secret.detector_type) \in DOMAIN API_ENDPOINTS

(***************************************************************************)
(* parse_scan_file.  The state of its loop is the pair of locals           *)
(* (current_entry, secrets).                                               *)
(***************************************************************************)
\* 'Found verified result' in line or 'Found unverified result' in line
IsMarker(line) ==
    \/ Contains(line, "Found verified result")
    \/ Contains(line, "Found unverified result")

\* DictSet as dict.setdefault: an existing key keeps its value
DictSetDefault(d, key, value) ==
    IF \E i \in 1..Len(d) : d[i][1] = key THEN d ELSE Append(d, <<key, value>>)

\* DictSet on a list of pairs: the key is never looked up
DictSetAppend(d, key, value) == Append(d, <<key, value>>)

\* d[key] = value on a dict: an existing key keeps its place, a new key goes last
DictSet(d, key, value) ==
    IF \E i \in 1..Len(d) : d[i][1] = key
    THEN [i \in 1..Len(d) |-> IF d[i][1] = key THEN <<key, value>> ELSE d[i]]
    ELSE Append(d, <<key, value>>)

\* the if/elif chain of the loop body, for a line that is no marker
FieldLine(line, entry) ==
    IF StartsWith(line, "Detector Type:")
    THEN [entry EXCEPT !.detector_type = Strip(AfterColon(line))]
    ELSE IF StartsWith(line, "Decoder Type:")
    THEN [entry EXCEPT !.decoder_type = Strip(AfterColon(line))]
    ELSE IF StartsWith(line, "Raw result:")
    THEN [entry EXCEPT !.raw_result = Strip(AfterColon(line))]
    ELSE IF StartsWith(line, "File:")
    THEN [entry EXCEPT !.file_path = Strip(AfterColon(line))]
    ELSE IF StartsWith(line, "Line:")
    THEN [entry EXCEPT !.line_number = Strip(AfterColon(line))]
    ELSE IF Contains(line, ":") /\ ~StartsWith(line, " ")
    THEN [entry EXCEPT !.extra_info =
              DictSet(@, Strip(BeforeColon(line)), Strip(AfterColon(line)))]
    ELSE entry

\* the record a marker line opens
NewEntry(line) == [SecretEntry EXCEPT !.verified = Contains(line, "verified")]

\* SavePrevious without the test of raw_result
SavePreviousUnchecked(st) ==
    IF st.current_entry # None THEN Append(st.secrets, st.current_entry)
    ELSE st.secrets

\* "if current_entry and current_entry.raw_result: secrets.append(current_entry)"
SavePrevious(st) ==
    IF st.current_entry # None /\ st.current_entry.raw_result # ""
    THEN Append(st.secrets, st.current_entry)
    ELSE st.secrets

\* one iteration of "for line in f"
ParseLine(st, text) ==
    LET line == Rstrip(text) IN
    IF IsMarker(line)
    THEN [current_entry |-> NewEntry(line), secrets |-> SavePrevious(st)]
    ELSE IF st.current_entry = None
    THEN st
    ELSE [st EXCEPT !.current_entry = FieldLine(line, @)]

RECURSIVE ParseLoop(_, _)
\* the whole loop over the lines
ParseLoop(st, lines) ==
    IF lines = <<>> THEN st
    ELSE ParseLoop(ParseLine(st, Head(lines)), Tail(lines))

\* the locals before the loop
ParseStart == [current_entry |-> None, secrets |-> <<>>]

\* the code after the loop: the last entry is saved
ParseEnd(st) == [st EXCEPT !.secrets = SavePrevious(st)]

\* parse_scan_file, as a function of the lines of the file
parse_scan_file(lines) == ParseEnd(ParseLoop(ParseStart, lines)).secrets

(***************************************************************************)
(* deduplicate_secrets.                                                    *)
(***************************************************************************)
RECURSIVE UniqueSecretsUnseen(_, _)
\* UniqueSecrets without seen_secrets.add
UniqueSecretsUnseen(list, seen_secrets) ==
    IF list = <<>> THEN <<>>
    ELSE IF Head(list).raw_result \notin seen_secrets
    THEN <<Head(list)>> \o UniqueSecretsUnseen(Tail(list), seen_secrets)
    ELSE UniqueSecretsUnseen(Tail(list), seen_secrets)

RECURSIVE UniqueSecrets(_, _)
\* the first loop: unique_secrets, given the set seen_secrets
UniqueSecrets(list, seen_secrets) ==
    IF list = <<>> THEN <<>>
    ELSE IF Head(list).raw_result \notin seen_secrets
    THEN <<Head(list)>> \o
         UniqueSecrets(Tail(list), seen_secrets \cup {Head(list).raw_result})
    ELSE UniqueSecrets(Tail(list), seen_secrets)

\* the list known
KnownOf(unique_secrets) ==
    SelectSeq(unique_secrets, LAMBDA s : is_known_type(s))

\* the list unknown
UnknownOf(unique_secrets) ==
    SelectSeq(unique_secrets, LAMBDA s : ~is_known_type(s))

\* deduplicate_secrets: the pair (known, unknown)
deduplicate_secrets(list) ==
    LET unique_secrets == UniqueSecrets(list, {}) IN
    <<KnownOf(unique_secrets), UnknownOf(unique_secrets)>>

(***************************************************************************)
(* JSON text, as json.dumps(..., indent=2) writes it.                      *)
(***************************************************************************)
HexDigits == "0123456789abcdef"

\* '\\u{0:04x}'.format(n), for a code point below 256
UEscape(n) ==
    "\\u00" \o Char(HexDigits, (n \div 16) + 1) \o Char(HexDigits, (n % 16) + 1)

\* the code points json.dumps escapes (ensure_ascii is left True): the quote,
\* the backslash and everything outside U+0020..U+007E
EscapedCodes == (1..31) \cup {34, 92} \cup (127..255)

\* the escape of each of them: a short escape where JSON has one, \uXXXX
\* otherwise
Escapes ==
    [c \in {Chr(n) : n \in EscapedCodes} |->
        CASE c = "\""   -> "\\\""
          [] c = "\\"   -> "\\\\"
          [] c = "\n"   -> "\\n"
          [] c = "\r"   -> "\\r"
          [] c = "\t"   -> "\\t"
          [] c = "\f"   -> "\\f"
          [] c = Chr(8) -> "\\b"
          [] OTHER     -> UEscape(Ord(c))]

RECURSIVE JsonEscape(_)
\* the body of the JSON string json.dumps writes for s: character by character
\* (the string is halved to keep the nesting low)
JsonEscape(s) ==
    IF Len(s) = 0 THEN ""
    ELSE IF Len(s) = 1 THEN (IF s \in DOMAIN Escapes THEN Escapes[s] ELSE s)
    ELSE JsonEscape(SubSeq(s, 1, Len(s) \div 2))
         \o JsonEscape(From(s, Len(s) \div 2 + 1))

\* json.dumps of a str
JsonString(s) == "\"" \o JsonEscape(s) \o "\""

\* the lines of a non-empty dict at the given indentation; values are JSON text
JsonMembers(d, indent) ==
    [i \in 1..Len(d) |->
        indent \o JsonString(d[i][1]) \o ": " \o d[i][2] \o
        (IF i < Len(d) THEN "," ELSE "")]

\* json.dumps(endpoint['body'], indent=2)
JsonBody(body) ==
    IF body = <<>> THEN "{}"
    ELSE "{\n" \o Join(JsonMembers(body, "  "), "\n") \o "\n}"

(***************************************************************************)
(* generate_http_request and generate_converted_http.                      *)
(***************************************************************************)
\* f'{{{{{var_name}}}}}'
Reference(var_name) == "{{" \o var_name \o "}}"

\* the name the redirect line is built from
DetectorClean(secret) == Replace(Lower(secret.detector_type), " ", "")

\* the header lines of a request
HeaderLines(headers, var_name) ==
    [i \in 1..Len(headers) |->
        headers[i][1] \o ": " \o
        Replace(headers[i][2], "{{var}}", Reference(var_name))]

\* the list lines of generate_http_request, for a secret of a known type
RequestLines(secret) ==
    LET endpoint == API_ENDPOINTS[Normalize(secret.detector_type)]
        var_name == get_variable_name(secret)
        ext_id   == ExtId(secret)
    IN  <<"### " \o secret.detector_type \o " (" \o ext_id \o ")">>
        \o <<endpoint.method \o " " \o
             Replace(endpoint.url, "{{var}}", Reference(var_name)) \o
             " HTTP/1.1">>
        \o HeaderLines(endpoint.headers, var_name)
        \o <<">> responses/" \o ext_id \o "/" \o DetectorClean(secret) \o ".json">>
        \o (IF endpoint.body # <<>> THEN <<"", JsonBody(endpoint.body)>> ELSE <<>>)
        \o <<"">>

\* generate_http_request
generate_http_request(secret) ==
    IF Normalize(secret.detector_type) \notin DOMAIN API_ENDPOINTS THEN ""
    ELSE Join(RequestLines(secret), "\n")

RECURSIVE generate_converted_http(_)
\* generate_converted_http: the text written to the file opened with 'w'
generate_converted_http(list) ==
    IF list = <<>> THEN ""
    ELSE LET request == generate_http_request(Head(list)) IN
         (IF request # "" THEN request \o "\n" ELSE "")
         \o generate_converted_http(Tail(list))

(***************************************************************************)
(* generate_env_json.                                                      *)
(***************************************************************************)
RECURSIVE DevSection(_, _)
\* the loop filling env_data['dev'], starting from the dict dev
DevSection(list, dev) ==
    IF list = <<>> THEN dev
    ELSE DevSection(Tail(list),
                    DictSet(dev, get_variable_name(Head(list)),
                            Head(list).raw_result))

SchemaUrl ==
    "https://raw.githubusercontent.com/mistweaverco/kulala.nvim/main/schemas/http-client.env.schema.json"

\* the lines json.dump(env_data, f, indent=2) writes, each but the last with its newline
RECURSIVE Indent(_)
\* _indent * level, for indent=2
Indent(level) == IF level = 0 THEN "" ELSE "  " \o Indent(level - 1)

RECURSIVE Flatten(_)
\* the concatenation of a sequence of sequences
Flatten(seqs) == IF seqs = <<>> THEN <<>> ELSE Head(seqs) \o Flatten(Tail(seqs))

\* the pieces json's _iterencode_dict yields for a dict at the given nesting
\* level; members holds, for each key in order, the pieces of its value
DictChunks(members, level) ==
    IF members = <<>> THEN <<"{}">>
    ELSE <<"{", "\n" \o Indent(level + 1)>>
         \o Flatten([i \in 1..Len(members) |->
                (IF i = 1 THEN <<>> ELSE <<",\n" \o Indent(level + 1)>>)
                \o <<JsonString(members[i][1]), ": ">>
                \o members[i][2]])
         \o <<"\n" \o Indent(level), "}">>

\* the pieces of env_data, dev being the dict under 'dev'
EnvData(dev) ==
    DictChunks(
        <<<<"$schema", <<JsonString(SchemaUrl)>>>>,
          <<"dev", DictChunks([j \in 1..Len(dev) |->
                                 <<dev[j][1], <<JsonString(dev[j][2])>>>>], 1)>>>>,
        0)

\* the strings generate_env_json hands to f.write, in order: those of
\* json.dump(env_data, f, indent=2), then '\n'
EnvChunks(list) == EnvData(DevSection(list, <<>>)) \o <<"\n">>

\* generate_env_json: the text of the store when every write has succeeded
generate_env_json(list) == Join(EnvChunks(list), "")

(***************************************************************************)
(* generate_unknown_txt.                                                   *)
(***************************************************************************)
\* the "key: value" lines of extra_info
ExtraLines(extra_info) ==
    Join([i \in 1..Len(extra_info) |->
             extra_info[i][1] \o ": " \o extra_info[i][2] \o "\n"], "")

\* what the loop body writes for one secret
UnknownBlock(secret) ==
    "Unknown Secret Type: " \o secret.detector_type \o "\n"
    \o "Extension: " \o ExtId(secret) \o "\n"
    \o "Raw Value: " \o secret.raw_result \o "\n"
    \o "File: " \o secret.file_path \o "\n"
    \o (IF secret.line_number # "" THEN "Line: " \o secret.line_number \o "\n"
        ELSE "")
    \o ExtraLines(secret.extra_info)
    \o "Verified: " \o (IF secret.verified THEN "Yes" ELSE "No") \o "\n"
    \o "\n"

\* generate_unknown_txt: the text written to the file opened with 'w'
generate_unknown_txt(list) ==
    Join([i \in 1..Len(list) |-> UnknownBlock(list[i])], "")

(***************************************************************************)
(* The steps of main that are not a function of their own.                 *)
(***************************************************************************)
\* "for secret in known_secrets + unknown_secrets: secret.extension_id = ..."
WithExtensionIds(list) ==
    [i \in 1..Len(list) |->
        [list[i] EXCEPT !.extension_id = extract_extension_id(list[i].file_path)]]

\* seen_secrets when the loop of deduplicate_secrets reaches list[i]
SeenBefore(list, i) == {list[j].raw_result : j \in 1..(i - 1)}

\* main's list secrets after that loop: the records of known and unknown are the
\* very objects deduplicate_secrets took from it, so the ones it kept carry the
\* extension_id too, and the ones it dropped do not
WithKeptExtensionIds(list) ==
    [i \in 1..Len(list) |->
        IF list[i].raw_result \notin SeenBefore(list, i)
        THEN [list[i] EXCEPT !.extension_id = extract_extension_id(list[i].file_path)]
        ELSE list[i]]

\* the longest file name, in bytes
NAME_MAX == 255

\* the length of a name in bytes
Utf8Len(name) == Len(Utf8(name))

\* the set extension_ids
ExtensionIds(list) == {ExtId(list[i]) : i \in 1..Len(list)}

\* whether (base_dir / ext_id).mkdir(exist_ok=True) raises, as the set of the
\* possible answers: it does when a regular file has the name (FileExistsError)
\* or the name is too long (OSError); for any other name it returns, unless the
\* system refuses the call for a cause of its own (PermissionError, a full or
\* read-only disk, any other OSError)
MkdirRaises(ext_id, files) ==
    IF ext_id \in files \/ Utf8Len(ext_id) > NAME_MAX THEN {TRUE} ELSE BOOLEAN

\* the subdirectories of responses/ the mkdir calls for these ids make: "." and
\* ".." name directories that exist, and nothing is made for them
Made(ids) == ids \ {".", ".."}

\* create_response_directories: the outcomes, each with what responses/ is
\* afterwards, its subdirectories, and whether the call raised.
\*  - base_dir.mkdir raises: it does when responses is a regular file, and the
\*    system may refuse it otherwise; responses/ is as it was.
\*  - the mkdir of some id raises: a set is iterated in no order of the
\*    program's choosing, so any of the other ids whose mkdir can return may
\*    have been made before it.
\*  - no mkdir raises: every id has its directory.
create_response_directories(list, base, dirs, files) ==
    LET ids      == ExtensionIds(list)
        makeable == {ext_id \in ids : FALSE \in MkdirRaises(ext_id, files)}
    IN  {[base |-> base, dirs |-> dirs, raised |-> TRUE]}
        \cup
        (IF base = "file" THEN {}
         ELSE {[base |-> "dir", dirs |-> dirs \cup Made(before), raised |-> TRUE] :
                  before \in {b \in SUBSET makeable : b # ids}})
        \cup
        (IF base # "file" /\ makeable = ids
         THEN {[base |-> "dir", dirs |-> dirs \cup Made(ids), raised |-> FALSE]}
         ELSE {})

\* what a failed write of these bytes may leave in a file opened with 'w': the
\* file is empty once opened, and what reached it is cut at any byte
Prefixes(bytes) == {SubSeq(bytes, 1, n) : n \in 0..Len(bytes)}

(***************************************************************************)
(* Inputs.                                                                 *)
(***************************************************************************)
VerifiedMarker == "Found verified result"

UnverifiedMarker == "Found unverified result"

\* the lines of one occurrence block of a report
BlockLines(marker, detector, raw, file, more) ==
    <<marker>>
    \o (IF detector = "" THEN <<>> ELSE <<"Detector Type: " \o detector>>)
    \o <<"Raw result: " \o raw, "File: " \o file>>
    \o more

\* a raw value with two control characters, a quote and a backslash inside.  The
\* inputs keep to the characters below U+0080: the model checker stores those
\* unchanged in a state, which it does not do for the ones above.
OddRaw == "s" \o Chr(127) \o Chr(11) \o "\"\\k"

\* the occurrence blocks the reports of the pipeline are made of
Blocks ==
    {BlockLines(m, "OpenAI", "sk-1", f, <<>>) :
        m \in {VerifiedMarker, UnverifiedMarker},
        f \in {"/x/extensions/abc/y.js", "/tmp/file.js"}}
    \cup
    {BlockLines(VerifiedMarker, "OpenAI", "abc", f, <<>>) :
        f \in {"/x/extensions/abc/y.js", "/tmp/file.js"}}
    \cup
    {BlockLines(VerifiedMarker, "FooBarService", "sk-1", "/tmp/file.js", <<>>)}
    \cup
    {BlockLines(VerifiedMarker, d, "sk-1", "/x/extensions/abc/y.js", <<>>) :
        d \in {"Snyk-Key", "Alchemy"}}
    \cup
    {BlockLines(VerifiedMarker, "", "sk-2", "/x/extensions/abc/y.js", <<>>)}
    \cup
    {BlockLines(UnverifiedMarker, "FooBarService", "sk-2", "/tmp/file.js",
                <<"Line: 7", "Username: bob">>)}
    \cup
    {BlockLines(VerifiedMarker, "Open AI", Chr(31) \o OddRaw \o Chr(28),
                "/tmp/file.js", <<>>)}

RECURSIVE ReportsOf(_)
\* the reports of exactly n blocks
ReportsOf(n) ==
    IF n = 0 THEN {<<>>}
    ELSE {b \o r : b \in Blocks, r \in ReportsOf(n - 1)}

\* the reports fed to the pipeline
Reports == UNION {ReportsOf(n) : n \in 0..MaxBlocks}

\* the lines the reports fed to the parser alone are made of
ParserLines ==
    {VerifiedMarker, UnverifiedMarker, "Detector Type: OpenAI",
     "Raw result: sk-1", "Raw result: sk-2", "Raw result:  ", "Username: bob",
     "Raw result: " \o Chr(28) \o Chr(11)}

RECURSIVE LineSeqs(_)
\* the sequences of exactly n lines
LineSeqs(n) ==
    IF n = 0 THEN {<<>>}
    ELSE {<<l>> \o r : l \in ParserLines, r \in LineSeqs(n - 1)}

\* the path segments the paths fed to extract_extension_id are made of
Segments == {"extensions", "myextensions", "abc", "unknown", ""}

RECURSIVE PathsOf(_)
\* the paths of exactly n segments
PathsOf(n) ==
    IF n = 1 THEN Segments
    ELSE {s \o "/" \o p : s \in Segments, p \in PathsOf(n - 1)}

\* what responses/ is before the run: absent, or left by an earlier run with a
\* directory of one extension and a regular file named as another id
Layouts ==
    {[base |-> "absent", dirs |-> {}, files |-> {}],
     [base |-> "dir", dirs |-> {"abc"}, files |-> {"unknown"}]}

\* a store left by an earlier run
OldStore == Utf8(Join(EnvData(<<<<"old_openai", "sk-old">>>>), "") \o "\n")

(***************************************************************************)
(* main: parse, deduplicate, resolve the extension ids, create the         *)
(* directories, write the three files.                                     *)
(***************************************************************************)
Init ==
    /\ input \in Reports
    /\ pos = 0
    /\ current_entry = None
    /\ secrets = <<>>
    /\ known = <<>>
    /\ unknown = <<>>
    /\ \E layout \in Layouts :
          /\ base_dir = layout.base
          /\ response_dirs = layout.dirs
          /\ response_files = layout.files
    /\ http_file = ""
    /\ env_file = OldStore
    /\ unknown_file = ""
    /\ file_path = ""
    /\ group_id = ""
    /\ pc = "parse"
    /\ raised = FALSE

\* Step 1: secrets = parse_scan_file(...)
Parse ==
    /\ pc = "parse" /\ ~raised
    /\ secrets' = parse_scan_file(input)
    /\ current_entry' = ParseLoop(ParseStart, input).current_entry
    /\ pos' = Len(input)
    /\ pc' = "dedupe"
    /\ UNCHANGED <<input, known, unknown, base_dir, response_dirs, response_files,
                   http_file, env_file, unknown_file, file_path, group_id, raised>>

\* Step 1, open raises OSError (scan.txt cannot be read): nothing catches it,
\* main ends where it is
ParseFail ==
    /\ pc = "parse" /\ ~raised
    /\ raised' = TRUE
    /\ UNCHANGED <<input, pos, current_entry, secrets, known, unknown, base_dir,
                   response_dirs, response_files, http_file, env_file, unknown_file,
                   file_path, group_id, pc>>

\* Step 2: known_secrets, unknown_secrets = deduplicate_secrets(secrets)
Deduplicate ==
    /\ pc = "dedupe" /\ ~raised
    /\ known' = deduplicate_secrets(secrets)[1]
    /\ unknown' = deduplicate_secrets(secrets)[2]
    /\ pc' = "resolve"
    /\ UNCHANGED <<input, pos, current_entry, secrets, base_dir, response_dirs,
                   response_files, http_file, env_file, unknown_file, file_path,
                   group_id, raised>>

\* Step 3: every secret of known and unknown gets its extension_id; they are
\* objects of the list secrets
ResolveIds ==
    /\ pc = "resolve" /\ ~raised
    /\ known' = WithExtensionIds(known)
    /\ unknown' = WithExtensionIds(unknown)
    /\ secrets' = WithKeptExtensionIds(secrets)
    /\ pc' = "dirs"
    /\ UNCHANGED <<input, pos, current_entry, base_dir, response_dirs, response_files,
                   http_file, env_file, unknown_file, file_path, group_id, raised>>

\* Step 4: create_response_directories(known_secrets, ...); when it raises,
\* nothing catches it and main ends
CreateDirectories ==
    /\ pc = "dirs" /\ ~raised
    /\ \E outcome \in create_response_directories(known, base_dir, response_dirs,
                                                  response_files) :
          /\ base_dir' = outcome.base
          /\ response_dirs' = outcome.dirs
          /\ pc' = IF outcome.raised THEN pc ELSE "http"
          /\ raised' = outcome.raised
    /\ UNCHANGED <<input, pos, current_entry, secrets, known, unknown, response_files,
                   http_file, env_file, unknown_file, file_path, group_id>>

\* Step 5: generate_converted_http(known_secrets, ...)
GenerateConvertedHttp ==
    /\ pc = "http" /\ ~raised
    /\ http_file' = Utf8(generate_converted_http(known))
    /\ pc' = "env"
    /\ UNCHANGED <<input, pos, current_entry, secrets, known, unknown, base_dir,
                   response_dirs, response_files, env_file, unknown_file, file_path,
                   group_id, raised>>

\* Step 5, open, a write or the close raises OSError: the file is as it was,
\* or holds the text cut at some byte; main ends
HttpFail ==
    /\ pc = "http" /\ ~raised
    /\ http_file' \in {http_file} \cup Prefixes(Utf8(generate_converted_http(known)))
    /\ raised' = TRUE
    /\ UNCHANGED <<input, pos, current_entry, secrets, known, unknown, base_dir,
                   response_dirs, response_files, env_file, unknown_file, file_path,
                   group_id, pc>>

\* Step 6: generate_env_json(known_secrets, ...)
GenerateEnvJson ==
    /\ pc = "env" /\ ~raised
    /\ env_file' = Utf8(generate_env_json(known))
    /\ pc' = "unknown"
    /\ UNCHANGED <<input, pos, current_entry, secrets, known, unknown, base_dir,
                   response_dirs, response_files, http_file, unknown_file, file_path,
                   group_id, raised>>

\* Step 6, open, a write or the close raises OSError: the store is as it was
\* (open failed), or holds the new text cut at some byte; main ends
EnvFail ==
    /\ pc = "env" /\ ~raised
    /\ env_file' \in {env_file} \cup Prefixes(Utf8(generate_env_json(known)))
    /\ raised' = TRUE
    /\ UNCHANGED <<input, pos, current_entry, secrets, known, unknown, base_dir,
                   response_dirs, response_files, http_file, unknown_file, file_path,
                   group_id, pc>>

\* Step 7: generate_unknown_txt(unknown_secrets, ...)
GenerateUnknownTxt ==
    /\ pc = "unknown" /\ ~raised
    /\ unknown_file' = Utf8(generate_unknown_txt(unknown))
    /\ pc' = "done"
    /\ UNCHANGED <<input, pos, current_entry, secrets, known, unknown, base_dir,
                   response_dirs, response_files, http_file, env_file, file_path,
                   group_id, raised>>

\* Step 7, open, a write or the close raises OSError
UnknownFail ==
    /\ pc = "unknown" /\ ~raised
    /\ unknown_file' \in {unknown_file} \cup Prefixes(Utf8(generate_unknown_txt(unknown)))
    /\ raised' = TRUE
    /\ UNCHANGED <<input, pos, current_entry, secrets, known, unknown, base_dir,
                   response_dirs, response_files, http_file, env_file, file_path,
                   group_id, pc>>

\* a print of main raises (sys.stdout refuses the write or cannot encode the
\* text): main prints before and after each of its steps, nothing catches the
\* exception, and main ends where it is, with what the steps before have done
PrintFail ==
    /\ ~raised
    /\ pc \in {"parse", "dedupe", "resolve", "dirs", "http", "env", "unknown", "done"}
    /\ raised' = TRUE
    /\ UNCHANGED <<input, pos, current_entry, secrets, known, unknown, base_dir,
                   response_dirs, response_files, http_file, env_file, unknown_file,
                   file_path, group_id, pc>>

Next ==
    \/ Parse
    \/ ParseFail
    \/ Deduplicate
    \/ ResolveIds
    \/ CreateDirectories
    \/ GenerateConvertedHttp
    \/ HttpFail
    \/ GenerateEnvJson
    \/ EnvFail
    \/ GenerateUnknownTxt
    \/ UnknownFail
    \/ PrintFail

Spec == Init /\ [][Next]_vars

(***************************************************************************)
(* parse_scan_file alone, one line of the file at a time.                  *)
(***************************************************************************)
InitParse ==
    /\ input \in UNION {LineSeqs(n) : n \in 0..MaxLines}
    /\ pos = 0
    /\ current_entry = ParseStart.current_entry
    /\ secrets = ParseStart.secrets
    /\ known = <<>>
    /\ unknown = <<>>
    /\ base_dir = "absent"
    /\ response_dirs = {}
    /\ response_files = {}
    /\ http_file = ""
    /\ env_file = ""
    /\ unknown_file = ""
    /\ file_path = ""
    /\ group_id = ""
    /\ pc = "loop"
    /\ raised = FALSE

\* one iteration of the loop
ReadLine ==
    /\ pc = "loop"
    /\ pos < Len(input)
    /\ LET st == ParseLine([current_entry |-> current_entry, secrets |-> secrets],
                           input[pos + 1])
       IN  /\ current_entry' = st.current_entry
           /\ secrets' = st.secrets
    /\ pos' = pos + 1
    /\ UNCHANGED <<input, known, unknown, base_dir, response_dirs, response_files,
                   http_file, env_file, unknown_file, file_path, group_id, pc, raised>>

\* the end of the file: the code after the loop, and the return
EndOfInput ==
    /\ pc = "loop"
    /\ pos = Len(input)
    /\ secrets' = ParseEnd([current_entry |-> current_entry,
                            secrets |-> secrets]).secrets
    /\ pc' = "parsed"
    /\ UNCHANGED <<input, pos, current_entry, known, unknown, base_dir, response_dirs,
                   response_files, http_file, env_file, unknown_file, file_path,
                   group_id, raised>>

NextParse == ReadLine \/ EndOfInput

SpecParse == InitParse /\ [][NextParse]_vars

(***************************************************************************)
(* extract_extension_id alone.                                             *)
(***************************************************************************)
InitPath ==
    /\ file_path \in {""} \cup UNION {PathsOf(n) : n \in 1..MaxSegs}
    /\ group_id = ""
    /\ input = <<>>
    /\ pos = 0
    /\ current_entry = None
    /\ secrets = <<>>
    /\ known = <<>>
    /\ unknown = <<>>
    /\ base_dir = "absent"
    /\ response_dirs = {}
    /\ response_files = {}
    /\ http_file = ""
    /\ env_file = ""
    /\ unknown_file = ""
    /\ pc = "path"
    /\ raised = FALSE

\* the call
ExtractExtensionId ==
    /\ pc = "path"
    /\ group_id' = extract_extension_id(file_path)
    /\ pc' = "resolved"
    /\ UNCHANGED <<input, pos, current_entry, secrets, known, unknown, base_dir,
                   response_dirs, response_files, http_file, env_file, unknown_file,
                   file_path, raised>>

NextPath == ExtractExtensionId

SpecPath == InitPath /\ [][NextPath]_vars

(***************************************************************************)
(* Properties.  What follows reads the state and the written files the way *)
(* the specification words its properties; none of it is used by the       *)
(* actions above.                                                          *)
(***************************************************************************)
\* the k-th smallest element of a set of numbers
KthSmallest(S, k) == CHOOSE i \in S : Cardinality({j \in S : j <= i}) = k

\* the elements of seq at the indices in S, in their order in seq
Picked(seq, S) == [k \in 1..Cardinality(S) |-> seq[KthSmallest(S, k)]]

\* a record as the parser made it: the group id is derived later
AsParsed(secret) == [secret EXCEPT !.extension_id = ""]

\* the positions in secrets whose raw value has not occurred before
FirstOccurrences ==
    {i \in 1..Len(secrets) :
        \A j \in 1..(i - 1) : secrets[j].raw_result # secrets[i].raw_result}

\* deduplicate_secrets has returned, whether or not main raised afterwards
Deduplicated ==
    pc \in {"resolve", "dirs", "http", "env", "unknown", "done"}

\* the records that survived deduplication, known and unknown together
Survivors == known \o unknown

\* C4: the survivors of deduplicate_secrets have pairwise different raw
\* values, every raw value of the input survives, and every survivor is the
\* first record of the input with its raw value, all parsed fields unchanged
C4_Deduplication ==
    Deduplicated =>
        LET out   == Survivors
            first == FirstOccurrences
        IN  /\ \A a, b \in 1..Len(out) :
                  a # b => out[a].raw_result # out[b].raw_result
            /\ Len(out) = Cardinality(first)
            /\ \A i \in first :
                  \E a \in 1..Len(out) : AsParsed(out[a]) = AsParsed(secrets[i])

\* C4 witness: a later record repeated a raw value with other fields and was dropped
C4_Witness ==
    /\ Deduplicated
    /\ \E i, j \in 1..Len(secrets) :
          /\ i < j
          /\ secrets[i].raw_result = secrets[j].raw_result
          /\ secrets[i] # secrets[j]
    /\ Len(Survivors) < Len(secrets)

\* the keys of the Endpoint Catalog
CatalogKeys ==
    {"openai", "telegrambottoken", "alchemy", "infura", "openweather",
     "cryptocompare", "weatherstack", "flickr", "newsapi", "miro",
     "twitchaccesstoken", "onesignal", "rapidapi", "snykkey", "ipstack",
     "fixerio", "sumologickey", "atlassian"}

RECURSIVE NormalizedDetector(_)
\* a detector type lowercased, with its spaces and hyphens removed
NormalizedDetector(d) ==
    IF Len(d) = 0 THEN ""
    ELSE IF Len(d) = 1 THEN (IF d \in {" ", "-"} THEN "" ELSE LowerChar(d))
    ELSE NormalizedDetector(SubSeq(d, 1, Len(d) \div 2))
         \o NormalizedDetector(From(d, Len(d) \div 2 + 1))

\* the positions among S whose normalized detector type is a catalog key
Classifiable(S) ==
    {i \in S : NormalizedDetector(secrets[i].detector_type) \in CatalogKeys}

\* C5: known holds exactly the deduplicated records whose normalized detector
\* type is a catalog key, unknown holds exactly the others (those with an
\* empty detector type among them), both in deduplicated order
C5_Classification ==
    Deduplicated =>
        LET first == FirstOccurrences
            keyed == Classifiable(first)
            parsed == [i \in 1..Len(secrets) |-> AsParsed(secrets[i])]
        IN  /\ [k \in 1..Len(known) |-> AsParsed(known[k])]
                  = Picked(parsed, keyed)
            /\ [k \in 1..Len(unknown) |-> AsParsed(unknown[k])]
                  = Picked(parsed, first \ keyed)
            /\ \A k \in 1..Len(known) : known[k].detector_type # ""

\* C5 witness: a hyphenated known type next to a record without detector type
C5_Witness ==
    /\ Deduplicated
    /\ \E k \in 1..Len(known) : Contains(known[k].detector_type, "-")
    /\ \E k \in 1..Len(unknown) : unknown[k].detector_type = ""

RECURSIVE TextOf(_)
\* the text a file holds: its bytes decoded as UTF-8 (one- and two-byte
\* sequences, which is what the characters of the model encode to)
TextOf(bytes) ==
    LET high == {i \in 1..Len(bytes) : Char(bytes, i) \in TwoByteChars} IN
    IF high = {} THEN bytes
    ELSE LET i == Min(high) IN
         IF i = Len(bytes) THEN bytes
         ELSE SubSeq(bytes, 1, i - 1)
              \o Chr((Ord(Char(bytes, i)) - 194) * 64 + Ord(Char(bytes, i + 1)))
              \o TextOf(From(bytes, i + 2))

\* text.split('\n')
TextLines(text) ==
    LET nl == {i \in 1..Len(text) : Char(text, i) = "\n"}
        n  == Cardinality(nl)
    IN  [k \in 1..(n + 1) |->
            SubSeq(text,
                   IF k = 1 THEN 1 ELSE KthSmallest(nl, k - 1) + 1,
                   IF k = n + 1 THEN Len(text) ELSE KthSmallest(nl, k) - 1)]

\* the blocks of an HTTP-template text: each runs from a separator line
\* ("### ...") to the line before the next separator
HttpBlocks(text) ==
    LET lines == TextLines(text)
        seps  == {k \in 1..Len(lines) : StartsWith(lines[k], "### ")}
        n     == Cardinality(seps)
    IN  [b \in 1..n |->
            SubSeq(lines, KthSmallest(seps, b),
                   IF b = n THEN Len(lines) ELSE KthSmallest(seps, b + 1) - 1)]

\* the k-th of the blocks, no lines when there is none
BlockAt(blocks, k) == IF k \in 1..Len(blocks) THEN blocks[k] ELSE <<>>

\* the name inside the first {{...}} reference of a block, "" when there is none
BlockReference(block) ==
    LET with == {k \in 1..Len(block) :
                    /\ Contains(block[k], "{{")
                    /\ Contains(From(block[k], Find(block[k], "{{") + 2), "}}")}
    IN  IF with = {} THEN ""
        ELSE LET rest == From(block[Min(with)], Find(block[Min(with)], "{{") + 2)
             IN  SubSeq(rest, 1, Find(rest, "}}") - 1)

\* the redirect directive of a block, "" when there is none
BlockDirective(block) ==
    LET with == {k \in 1..Len(block) : StartsWith(block[k], ">> ")} IN
    IF with = {} THEN "" ELSE block[Min(with)]

\* whether the quote at index q of a JSON line ends a string: an even number
\* of backslashes stands right before it
EndsString(l, q) ==
    LET plain == {j \in 1..(q - 1) : Char(l, j) # "\\"}
        last  == IF plain = {} THEN 0 ELSE Max(plain)
    IN  Char(l, q) = "\"" /\ (q - 1 - last) % 2 = 0

\* the index of the quote that ends the JSON string whose text starts at index a
StringEnd(l, a) ==
    LET ends == {q \in a..Len(l) : EndsString(l, q)} IN
    IF ends = {} THEN Len(l) + 1 ELSE Min(ends)

\* the value of a hexadecimal digit
HexValue(c) == Find(HexDigits, c) - 1

RECURSIVE JsonUnescape(_)
\* the text a JSON string body stands for
JsonUnescape(s) ==
    LET i == Find(s, "\\")
        e == Char(s, i + 1)
    IN  IF i = 0 \/ i = Len(s) THEN s
        ELSE IF e = "u" /\ i + 5 <= Len(s)
        THEN SubSeq(s, 1, i - 1)
             \o Chr(16 * HexValue(Char(s, i + 4)) + HexValue(Char(s, i + 5)))
             \o JsonUnescape(From(s, i + 6))
        ELSE SubSeq(s, 1, i - 1)
             \o (CASE e = "t" -> "\t"
                   [] e = "n" -> "\n"
                   [] e = "r" -> "\r"
                   [] e = "f" -> "\f"
                   [] e = "b" -> Chr(8)
                   [] OTHER   -> e)
             \o JsonUnescape(From(s, i + 2))

\* the member a line of the dev section holds: <<key, value>>
DevMember(l) ==
    LET ke == StringEnd(l, 6)
        ve == StringEnd(l, ke + 5)
    IN  <<JsonUnescape(SubSeq(l, 6, ke - 1)),
          JsonUnescape(SubSeq(l, ke + 4, ve - 1))>>

\* the dev section read back from a complete store text, in file order: its
\* members are the lines indented by four spaces
StoreDev(text) ==
    LET lines == TextLines(text)
        mem   == {k \in 1..Len(lines) :
                     /\ StartsWith(lines[k], "    \"")
                     /\ StringEnd(lines[k], 6) + 4 <= Len(lines[k])}
    IN  [a \in 1..Cardinality(mem) |-> DevMember(lines[KthSmallest(mem, a)])]

\* the variable name of a record: "{groupId}_{normalizedDetectorType}"
VariableName(secret) ==
    secret.extension_id \o "_" \o NormalizedDetector(secret.detector_type)

\* converted.http has been written
HttpWritten == pc \in {"env", "unknown", "done"}

\* converted.http and the credential store have both been written completely,
\* and main runs on or has returned (when it raises after this, the two files
\* and the lists stay as they are in the state it raises from)
StoreWritten == pc \in {"unknown", "done"} /\ ~raised

\* C1: no raw value of a parsed record occurs as a substring of converted.http
C1_Redaction ==
    HttpWritten =>
        \A i \in 1..Len(secrets) : ~Contains(TextOf(http_file), secrets[i].raw_result)

\* the names the blocks of the known records reference, block by block
References ==
    LET blocks == HttpBlocks(TextOf(http_file)) IN
    [k \in 1..Len(known) |-> BlockReference(BlockAt(blocks, k))]

\* C2 as claimed: the name referenced in the block of each known record is a key
\* of dev, and the value under it is that record's raw value
C2_RoundTrip ==
    StoreWritten =>
        LET dev  == StoreDev(TextOf(env_file))
            refs == References
        IN  \A k \in 1..Len(known) :
                \E a \in 1..Len(dev) :
                    /\ dev[a][1] = refs[k]
                    /\ dev[a][2] = known[k].raw_result

\* the last known record whose block references the same name as block k
LastReferrer(refs, k) == Max({j \in 1..Len(known) : refs[j] = refs[k]})

\* C2 as amended: the name referenced in the block of each known record is a key
\* of dev, and the value under it is the raw value of the last known record
\* whose block references that name (the record's own raw value when no later
\* known record shares its variable name)
C2_RoundTripLastReferrer ==
    StoreWritten =>
        LET dev  == StoreDev(TextOf(env_file))
            refs == References
        IN  \A k \in 1..Len(known) :
                \E a \in 1..Len(dev) :
                    /\ dev[a][1] = refs[k]
                    /\ dev[a][2] = known[LastReferrer(refs, k)].raw_result

\* C2 witness: the name of the first known record was reused by a later one
\* with another raw value, and the store holds the later value under it
C2_Witness ==
    /\ StoreWritten
    /\ Len(known) >= 2
    /\ LastReferrer(References, 1) # 1
    /\ known[LastReferrer(References, 1)].raw_result # known[1].raw_result
    /\ \E a \in 1..Len(StoreDev(TextOf(env_file))) :
          StoreDev(TextOf(env_file))[a] =
              <<References[1], known[LastReferrer(References, 1)].raw_result>>

\* C6: when main has ended by an exception, a failed store write included, the
\* file holds the complete old store or the complete new one
C6_AllOrNothing ==
    raised => env_file \in {OldStore, Utf8(generate_env_json(known))}

\* C7: converted.http has one block per known record, in order, each
\* referencing its record's variable name; the store has one entry per distinct
\* variable name, holding the raw value of the last known record of that name
C7_LastWriteWins ==
    StoreWritten =>
        LET blocks == HttpBlocks(TextOf(http_file))
            dev    == StoreDev(TextOf(env_file))
        IN  /\ Len(blocks) = Len(known)
            /\ \A k \in 1..Len(known) :
                  BlockReference(BlockAt(blocks, k)) = VariableName(known[k])
            /\ \A a, b \in 1..Len(dev) : a # b => dev[a][1] # dev[b][1]
            /\ {dev[a][1] : a \in 1..Len(dev)}
                  = {VariableName(known[k]) : k \in 1..Len(known)}
            /\ \A a \in 1..Len(dev) :
                  \E k \in 1..Len(known) :
                      /\ VariableName(known[k]) = dev[a][1]
                      /\ \A j \in (k + 1)..Len(known) :
                            VariableName(known[j]) # dev[a][1]
                      /\ dev[a][2] = known[k].raw_result

\* C7 witness: two known records with different raw values and one variable
\* name: two blocks, one store entry, holding the later value
C7_Witness ==
    /\ pc = "done"
    /\ Len(known) = 2
    /\ known[1].raw_result # known[2].raw_result
    /\ VariableName(known[1]) = VariableName(known[2])
    /\ Len(HttpBlocks(TextOf(http_file))) = 2
    /\ StoreDev(TextOf(env_file)) = <<<<VariableName(known[2]), known[2].raw_result>>>>

\* C10: the directive line of the block of each known record is
\* ">> responses/<groupId>/<d>.json", d the normalized detector type
C10_RedirectPath ==
    HttpWritten =>
        LET blocks == HttpBlocks(TextOf(http_file)) IN
        \A k \in 1..Len(known) :
            BlockDirective(BlockAt(blocks, k)) =
                ">> responses/" \o known[k].extension_id \o "/"
                \o NormalizedDetector(known[k].detector_type) \o ".json"

\* the positions of the marker lines of the input
MarkerLines ==
    {i \in 1..Len(input) :
        Contains(input[i], VerifiedMarker) \/ Contains(input[i], UnverifiedMarker)}

\* the last line of the block the marker at position i opens
BlockEnd(i) ==
    LET later == {j \in MarkerLines : j > i} IN
    IF later = {} THEN Len(input) ELSE Min(later) - 1

\* the raw value of the block opened at i when it is closed: what the last
\* "Raw result:" line of the block gives, nothing without such a line
RawAtClose(i) ==
    LET raws == {j \in (i + 1)..BlockEnd(i) : StartsWith(input[j], "Raw result:")}
    IN  IF raws = {} THEN ""
        ELSE Strip(SubSeq(input[Max(raws)], 12, Len(input[Max(raws)])))

\* the markers of the blocks that are closed with a non-empty raw value
KeptBlocks == {i \in MarkerLines : RawAtClose(i) # ""}

\* the marker line that opened the k-th returned record, "" when there is none
OpeningMarker(k) ==
    IF k \in 1..Cardinality(KeptBlocks) THEN input[KthSmallest(KeptBlocks, k)]
    ELSE ""

\* the lines of the k-th block of unknown.txt (blocks end with an empty line)
UnknownTxtBlock(k) ==
    LET lines == TextLines(TextOf(unknown_file))
        ends  == {j \in 1..Len(lines) : lines[j] = ""}
    IN  IF k \in 1..Len(unknown) /\ k <= Cardinality(ends)
        THEN SubSeq(lines,
                    IF k = 1 THEN 1 ELSE KthSmallest(ends, k - 1) + 1,
                    KthSmallest(ends, k) - 1)
        ELSE <<>>

\* C3: a record opened by the unverified marker has verified = false, one
\* opened by the verified marker has verified = true, and unknown.txt renders
\* the flag of each unknown record as "Verified: No" and "Verified: Yes"
C3_VerifiedFollowsMarker ==
    pc = "done" =>
        /\ \A k \in 1..Len(secrets) :
              /\ Contains(OpeningMarker(k), UnverifiedMarker)
                    => secrets[k].verified = FALSE
              /\ Contains(OpeningMarker(k), VerifiedMarker)
                    => secrets[k].verified = TRUE
        /\ \A k \in 1..Len(unknown) :
              \E j \in 1..Len(UnknownTxtBlock(k)) :
                  UnknownTxtBlock(k)[j] =
                      (IF unknown[k].verified THEN "Verified: Yes"
                       ELSE "Verified: No")

\* C9: parse_scan_file returns one record per block closed with a non-empty
\* raw value, in input order and with that raw value, and nothing else; no
\* returned record has an empty raw value; and while no marker has been read
\* there is no record under construction and none returned
C9_RecordEmission ==
    /\ pc = "parsed" =>
          /\ Len(secrets) = Cardinality(KeptBlocks)
          /\ \A k \in 1..Len(secrets) :
                /\ k <= Cardinality(KeptBlocks)
                      => secrets[k].raw_result
                            = RawAtClose(KthSmallest(KeptBlocks, k))
                /\ secrets[k].raw_result # ""
    /\ (pc = "loop" /\ MarkerLines \cap 1..pos = {}) =>
          /\ current_entry = None
          /\ secrets = <<>>

\* C9 witness: lines before the first marker, a block dropped for its empty
\* raw value and a block kept
C9_Witness ==
    /\ pc = "parsed"
    /\ MarkerLines # {}
    /\ Min(MarkerLines) > 1
    /\ MarkerLines \ KeptBlocks # {}
    /\ KeptBlocks # {}
    /\ Len(secrets) = 1

\* the path has been resolved
Resolved == pc = "resolved"

\* the '/'-separated components of a path
Components(path) ==
    LET sl == {i \in 1..Len(path) : Char(path, i) = "/"}
        n  == Cardinality(sl)
    IN  [k \in 1..(n + 1) |->
            SubSeq(path,
                   IF k = 1 THEN 1 ELSE KthSmallest(sl, k - 1) + 1,
                   IF k = n + 1 THEN Len(path) ELSE KthSmallest(sl, k) - 1)]

\* the positions of the components "extensions" that a segment follows: a
\* non-empty component that a '/' closes, as in the pattern
\* ".../extensions/<segment>/..."
ExtensionsComponents(path) ==
    {k \in 1..(Len(Components(path)) - 2) :
        /\ Components(path)[k] = "extensions"
        /\ Components(path)[k + 1] # ""}

\* C8 as claimed: the result is the segment after the first "extensions/"
\* component when the path has one, and it is the sentinel "unknown" when the
\* path is empty or has no "extensions/" component
C8_GroupResolution ==
    Resolved =>
        IF ExtensionsComponents(file_path) = {}
        THEN group_id = "unknown"
        ELSE group_id =
                 Components(file_path)[Min(ExtensionsComponents(file_path)) + 1]

====
